---- MODULE Spec2Model ----
(***************************************************************************)
(* Doyen.gRPC script managers.                                             *)
(*                                                                         *)
(* The algorithm script manager (ScriptServicer) keeps the module-level    *)
(* dict active_algorithms and serves every RPC with a synchronous handler  *)
(* run on a worker of a ThreadPoolExecutor.  A handler is modelled as the  *)
(* sequence of its accesses to shared state: the dict check and fetch, the *)
(* begin and the end of each plugin hook call, the dict store or delete.   *)
(* Spec serves one request at a time; SpecConc interleaves the workers.    *)
(***************************************************************************)
EXTENDS Integers, Sequences, FiniteSets, TLC

\* ---------------------------------------------------------------- bounds
NumIds == 2
NumThreads == 2
MaxObjs == 2
NumEvents == 2
NumTimes == 3
MaxIdentity == 4
MaxPeriod == 3
MaxPrice == 2
MaxFeed == 3
LongFeed == 104
MaxVersion == 2

Ids == 1..NumIds
Threads == 1..NumThreads
Refs == 1..MaxObjs
EventIds == 1..NumEvents
Times == 1..NumTimes

\* (window-start, window-end) of a candle
Pairs == {p \in Times \X Times : p[1] < p[2]}

\* the window that is open when the feed begins
OpenWindow == CHOOSE p \in Pairs : \A q \in Pairs : p[1] <= q[1] /\ p[2] <= q[2]

\* props['period']['value']
Periods == 1..MaxPeriod

\* candle['open'], candle['close']
Prices == 1..MaxPrice

\* ------------------------------------------------------------- constants
INITIALIZED == "initialized"
RUNNING == "running"
PAUSED == "paused"
STOPPED == "stopped"

\* IndicatorType, the 'type' of a result
CANDLESTICK == 1
LINE == 2
BAR == 3

\* SMAIndicator.__init__: self.sma_period = 30
DefaultPeriod == 30

\* max_history = max(self.sma_period * 3, 100)
HistoryFactor == 3
HistoryFloor == 100

\* props['displayMode']['value']
DisplayModes == {"candlestick", "bar", "line", "area"}

\* request.name: the .py files of the algorithm directory, and a name with no file
Scripts == {"Scalpbot", "SimpleTestAlgorithm", "Algorithm",
            "Doyen.Algorithms.ScriptManager", "NoSuchScript"}

\* a script of the user in the algorithm directory that defines the three
\* functions get_options_schema, start and process and no class: the loader
\* wraps it in a ModuleFunctionWrapper
AdapterScripts == {"UserFunctions"}

OptionInputs == {"", "{}", "{bad"}

DataKinds == {"Trade", "Candle", "Dob"}

\* request.name on the indicator service: two of the repository's indicators, a
\* script written by the user (an Indicator subclass with hooks of its own), the
\* other .py files of the directory, and a name with no file
IndicatorScripts == {"SMA", "PriceDisplay", "UserIndicator", "Indicator",
                     "Doyen.Indicators.ScriptManager", "NoSuchIndicator"}

Symbols == {"BTCUSD", "ETHUSD"}

VARIABLES
    slots,   \* active_algorithms: the live entries of the dict, in insertion order
    objs,    \* heap: the AlgorithmContext + Algorithm pair made by one Initialize
    th,      \* per worker thread: the request it serves and where it is
    inds,    \* ChartsServicer.active_indicators, in insertion order
    iobjs,   \* heap: the IndicatorContext + Indicator pair made by one InitializeIndicator
    ith,     \* the request the indicator service is serving
    modules, \* sys.modules as the loaders see it, per script name: the instance
             \* bound to the module's singleton name (0: none, or one that no
             \* entry was made from), and for a base
             \* class module 1 once it has been executed again
    files,   \* the script files: the version saved on disk, and the version
             \* the names of the script's module are bound to (the one that
             \* ran last; the saved one before the first import)
    plugin   \* one Indicator instance seen from inside: its datapoint_ids,
             \* next_datapoint_id and historical_results, the fields its class
             \* adds, and a record of what its calls returned

vars == <<slots, objs, th, inds, iobjs, ith, modules, files, plugin>>

algoVars == <<slots, objs, th>>

chartVars == <<inds, iobjs, ith>>

loaderVars == <<modules, files>>

\* ------------------------------------------------------------ structures
\* listens: the event kinds the Initialize response of the entry declared;
\* algo_id: the instance's own algo_id attribute
NoObj == [src |-> "", state |-> "", cfg |-> "", paused |-> FALSE, listens |-> {},
     algo_id |-> 0]

\* an instance nothing refers to any more
Dead == [src |-> "dead", state |-> "", cfg |-> "", paused |-> FALSE, listens |-> {},
     algo_id |-> 0]

\* an instance nothing refers to any more whose Stop set it STOPPED
Retired == [src |-> "dead", state |-> STOPPED, cfg |-> "", paused |-> FALSE, listens |-> {},
     algo_id |-> 0]

\* items: the algorithms of a ListRunningAlgorithmsResponse
NoResp ==
    [kind |-> "", algoId |-> 0, success |-> FALSE, reason |-> "", ack |-> 0, items |-> <<>>]

\* the gateway call of the running hook: result "pending" while the engine has
\* not answered, remote is how the engine's call ended
NoGw == [op |-> "", state |-> "", forwarded |-> FALSE, result |-> "", remote |-> ""]

\* after, rest: the request this one follows at once on the same id, and the
\* entries of the other ids as they were before that request; was: the
\* configuration the entry held when a Start request came in
Idle == [op |-> "", pc |-> "idle", key |-> 0, arg |-> "", evt |-> 0,
         ref |-> 0, it |-> 0, used |-> 0, calls |-> <<>>, raised |-> {},
         stable |-> {}, gw |-> NoGw, resp |-> NoResp, after |-> "", rest |-> <<>>,
         was |-> ""]

\* shape: how the loader made the instance; ver: the version of the script
\* that built it; symbol: IndicatorContext.symbol; own: the symbol attribute of
\* the instance
NoInd == [src |-> "", symbol |-> "", shape |-> "", ver |-> 0, own |-> ""]

DeadInd == [src |-> "dead", symbol |-> "", shape |-> "", ver |-> 0, own |-> ""]

\* AlgorithmContext(algo_id, name, algorithm): state INITIALIZED, configuration None;
\* Algorithm.__init__: paused False
NewObj(src) ==
    [src |-> src, state |-> INITIALIZED, cfg |-> "", paused |-> FALSE, listens |-> {},
     algo_id |-> 0]

\* ------------------------------------------------------------ dict model
Contains(s, id) == \E i \in DOMAIN s : s[i].key = id

IndexOf(s, id) == CHOOSE i \in DOMAIN s : s[i].key = id

Lookup(s, id) == s[IndexOf(s, id)].ref

\* variant: a store that never finds the key it is given
DictAppend(s, id, r) == Append(s, [key |-> id, ref |-> r])

\* active_algorithms[id] = ctx: a present key keeps its place, a new key goes last
DictSet(s, id, r) ==
    IF Contains(s, id) THEN [s EXCEPT ![IndexOf(s, id)].ref = r]
    ELSE Append(s, [key |-> id, ref |-> r])

\* variant: a delete that leaves the entry in place
DictKeep(s, id) == s

\* del active_algorithms[id]
DictDel(s, id) ==
    LET d == IndexOf(s, id)
    IN  [i \in 1..(Len(s) - 1) |-> IF i < d THEN s[i] ELSE s[i + 1]]

Registered(s) == {s[i].ref : i \in DOMAIN s}

\* the entries stored under the other keys, in dict order
Others(s, id) == SelectSeq(s, LAMBDA e : e.key # id)

Range(q) == {q[i] : i \in DOMAIN q}

Allocated == {r \in Refs : objs[r].src # ""}

Free(t) == th[t].pc \in {"idle", "done"}

HookPcs == {"startHook", "pauseHook", "resumeHook", "stopHook", "dataHook", "osHook"}

\* an instance is reachable from the dict or from a handler that holds it
Reachable(s, h) == Registered(s) \cup {h[t].ref : t \in Threads}

Collect(o, s, h) ==
    [r \in Refs |-> IF o[r].src \notin {"", "dead"} /\ r \notin Reachable(s, h)
                    THEN (IF o[r].state = STOPPED THEN Retired ELSE Dead)
                    ELSE o[r]]

Store(s, o, h) ==
    /\ slots' = s
    /\ th' = h
    /\ objs' = Collect(o, s, h)
    /\ UNCHANGED <<chartVars, files, plugin>>

\* a step of a handler that loads no module
Commit(s, o, h) == Store(s, o, h) /\ UNCHANGED modules

\* ---------------------------------------------------------------- plugins
\* hooks a plugin class defines itself; every other hook is the base class's
Overrides(src) ==
    IF src = "Scalpbot" THEN {"start", "process_dob", "process_order_status"}
    ELSE IF src = "SimpleTestAlgorithm"
         THEN {"start", "stop", "pause", "resume", "process_candle",
               "process_trade", "process_dob", "process_order_status"}
    ELSE {}

\* what a hook call can do: a plugin's own body returns or raises (start may
\* also return a falsy value); the base class bodies only return
HookOutcomes(src, hook) ==
    IF src \in AdapterScripts
    THEN \* ModuleFunctionWrapper.start(self, historical_data, options) is called
         \* as algorithm.start(options): TypeError before the module's start runs
         (IF hook = "start" THEN {"raise"} ELSE {"ok"})
    ELSE IF hook \in Overrides(src)
    THEN (IF hook = "start" THEN {"ok", "fail", "raise"} ELSE {"ok", "raise"})
    ELSE {"ok"}

\* os.path.exists on the script
ScriptExists(src) ==
    src \in {"Scalpbot", "SimpleTestAlgorithm", "Algorithm", "Doyen.Algorithms.ScriptManager"}
            \cup AdapterScripts

\* the names a script defines at module level, as the loader looks for them:
\* SimpleTestAlgorithm.py ends with algorithm = SimpleTestAlgorithm(); Scalpbot.py
\* has class ScalpBot, indicator, get_options_schema and start; Algorithm.py has
\* the base class only
Exports(src) ==
    CASE src = "SimpleTestAlgorithm" -> {"singleton", "subclass"}
      [] src = "Scalpbot" -> {"subclass", "get_options_schema", "start"}
      [] src \in {"SMA", "PriceDisplay"} ->
             {"singleton", "subclass", "get_options_schema", "start", "process"}
      [] src = "UserIndicator" -> {"subclass"}
      [] src \in AdapterScripts -> {"get_options_schema", "start", "process"}
      [] OTHER -> {}

\* the base class modules, which the managers import once at their start
BaseModules == {"Algorithm", "Indicator"}

BaseOf(src) == IF src \in Scripts \cup AdapterScripts THEN "Algorithm" ELSE "Indicator"

\* exec of a manager's own file stops at __file__, which a bare module lacks
Executes(src) == src \notin {"Doyen.Algorithms.ScriptManager", "Doyen.Indicators.ScriptManager"}

\* importlib.reload of the base module binds its class name to a new class:
\* from then on isinstance / issubclass against the class the manager holds
\* are false for everything a script builds
Stale(mods, src) == src \in BaseModules \/ mods[BaseOf(src)] = 1

\* load_algorithm_from_file / load_indicator_from_file: which of the three
\* resolution strategies yields the plugin, "none" when none does, "error"
\* when importing raised
LoadShape(mods, src) ==
    IF ~Executes(src) THEN "error"
    ELSE IF "singleton" \in Exports(src) /\ ~Stale(mods, src) THEN "instance"
    ELSE IF "subclass" \in Exports(src) /\ ~Stale(mods, src) THEN "class"
    ELSE IF {"get_options_schema", "start", "process"} \subseteq Exports(src) THEN "functions"
    ELSE "none"

Loads(mods, src) == LoadShape(mods, src) \in {"instance", "class", "functions"}

\* variant: __import__ alone, which hands back the module as it was executed first
ImportCached(mods, src, r) == IF mods[src] # 0 THEN mods[src] ELSE r

\* __import__ followed by importlib.reload: the module body runs again, so its
\* singleton name is bound to the object r built by this run
Import(mods, src, r) == r

\* sys.modules after the load.  A module whose functions are wrapped is the
\* same module object at every load: r, the wrapper made by this load, stands
\* for the objects the module's names are bound to from now on
AfterLoad(mods, src, r) ==
    IF ~Executes(src) THEN mods
    ELSE IF src \in BaseModules THEN [mods EXCEPT ![src] = 1]
    ELSE IF LoadShape(mods, src) \in {"instance", "functions"}
         THEN [mods EXCEPT ![src] = Import(mods, src, r)]
    ELSE mods

\* the script files after the load: the module body ran as it is saved now
Reloaded(fs, src) ==
    IF Executes(src) THEN [fs EXCEPT ![src].run = fs[src].saved] ELSE fs

\* the scripts somebody is working on while the manager runs
Editable == {"SMA"}

\* a new version of the script is saved
EditScript(src) ==
    /\ files[src].saved < MaxVersion
    /\ files' = [files EXCEPT ![src].saved = @ + 1]
    /\ UNCHANGED <<algoVars, chartVars, modules, plugin>>

\* what get_options_schema gives: the repository's plugins return json.dumps(...),
\* a str; a script of the user may return any object, or raise
SchemaOutcomes(src) ==
    IF src = "UserIndicator" THEN {"str", "other", "raise"} ELSE {"str"}

\* the methods class Algorithm defines, which every plugin inherits
BaseHooks ==
    {"start", "pause", "resume", "stop", "process_trade", "process_dob",
     "process_candle", "process_order_status"}

\* variant: only a hook the plugin's class defines itself counts
HasHookOwn(src, hook) == hook \in Overrides(src)

\* hasattr(algorithm, name) and callable(...), asked at every event: the base
\* class defines them all
HasHook(src, hook) == hook \in Overrides(src) \cup BaseHooks

DataHook(kind) ==
    IF kind = "Trade" THEN "process_trade"
    ELSE IF kind = "Candle" THEN "process_candle"
    ELSE "process_dob"

\* InitializeAlgorithm: listen_dob, listen_trades, listen_candles, asked once
\* of the instance just loaded
Listens(src) == {kind \in DataKinds : DataHook(kind) \in Overrides(src) \cup BaseHooks}

\* json.loads(request.optionsJsonDataResponse) succeeds
JsonValid(s) == s \in {"{}", "{\"properties\": {}}"}

\* --------------------------------------------------------------- responses
\* variant: a failure leaves the handler as an exception, without a response
ReplyOrRaise(id, ok, why) ==
    IF ok THEN [NoResp EXCEPT !.kind = "lifecycle", !.algoId = id, !.success = TRUE,
                              !.reason = why]
    ELSE [NoResp EXCEPT !.kind = "exception"]

\* the response message of a lifecycle handler
Reply(id, ok, why) ==
    [NoResp EXCEPT !.kind = "lifecycle", !.algoId = id, !.success = ok, !.reason = why]

NotInitializedReason == "Algorithm not initialized"

\* variant: an ack built without the request's id
DataAckBlank(evt) == [NoResp EXCEPT !.kind = "ack", !.success = TRUE]

\* TradeAck / CandlestickAck / DepthOfBookAck(id=request.id)
DataAck(evt) == [NoResp EXCEPT !.kind = "ack", !.success = TRUE, !.ack = evt]

\* OrderStatusUpdateAck(algoId=request.algoId, messageId=request.messageId)
OrderAck(id, msg) ==
    [NoResp EXCEPT !.kind = "osack", !.algoId = id, !.success = TRUE, !.ack = msg]

\* the handler returns its response and lets go of what it held
Finish(r, resp) ==
    [r EXCEPT !.pc = "done", !.resp = resp, !.ref = 0, !.it = 0, !.used = 0, !.gw = NoGw,
              !.was = ""]

Request(op, id, arg, evt) == [Idle EXCEPT !.op = op, !.key = id, !.arg = arg, !.evt = evt]

Put(t, r) == [th EXCEPT ![t] = r]

\* the hook called for this request raised
Raised(r) == [r EXCEPT !.raised = {r.ref}]

\* the worker's last request was op on id and it returned success
Follows(t, op, id) ==
    th[t].pc = "done" /\ th[t].op = op /\ th[t].key = id /\ th[t].resp.success

\* ------------------------------------------------------ Indicator object
NoIds == [p \in Pairs |-> 0]

\* the dict process returns, with the fields of the three record types; valid
\* and candle are not in the dict: valid_sma and the candle of the call
NoResult ==
    [type |-> 0, id |-> 0, pair |-> <<0, 0>>, value |-> 0, open |-> 0, close |-> 0,
     bottom |-> 0, top |-> 0, colour |-> "", valid |-> FALSE,
     candle |-> [open |-> 0, close |-> 0]]

\* Indicator.__init__: datapoint_ids = {}, next_datapoint_id = 1,
\* historical_results = []; SMAIndicator.__init__: sma_period, historical_prices;
\* PriceDisplayIndicator.__init__: display_mode.  The other fields record the
\* calls: started (start was called and stop was not since), seen and given (the
\* pairs in the order of their first call since the last start or stop, and
\* what each was given then), ever (what a pair was given the first time in the
\* life of the object), last (the latest get_datapoint_id call), fed (the
\* process calls since the last start), out (what the latest process call
\* since the last start or stop returned)
NewIndicator ==
    [ids |-> NoIds, next |-> 1, started |-> FALSE,
     seen |-> <<>>, given |-> NoIds, ever |-> NoIds,
     last |-> [pair |-> <<0, 0>>, id |-> 0],
     results |-> <<>>, period |-> DefaultPeriod, prices |-> <<>>,
     mode |-> "candlestick", fed |-> 0, out |-> NoResult]

\* ------------------------------------------------------------------- Init
Init ==
    /\ slots = <<>>
    /\ objs = [r \in Refs |-> NoObj]
    /\ th = [t \in Threads |-> Idle]
    /\ inds = <<>>
    /\ iobjs = [r \in Refs |-> NoInd]
    /\ ith = Idle
    /\ modules = [m \in Scripts \cup AdapterScripts \cup IndicatorScripts \cup BaseModules |-> 0]
    /\ files = [m \in Scripts \cup IndicatorScripts |-> [saved |-> 1, run |-> 1]]
    /\ plugin = NewIndicator

\* ------------------------------------------------------------- Initialize
\* the loader runs first; the entry is stored before the response is built, and
\* the response constructor takes optionsJsonDataRequest only as a str
InitializeAlgorithm(t, id, src, schema) ==
    /\ Free(t)
    /\ schema \in SchemaOutcomes(src)
    /\ LET fresh == Cardinality(Allocated) + 1
           r == IF LoadShape(modules, src) = "instance"
                THEN Import(modules, src, fresh) ELSE fresh
           me == IF Follows(t, "Stop", id)
                 THEN [Request("Initialize", id, src, 0) EXCEPT !.after = "Stop"]
                 ELSE Request("Initialize", id, src, 0)
       IN  IF ~ScriptExists(src)
           THEN Commit(slots, objs, Put(t, Finish(me, Reply(id, FALSE, "Script not found"))))
           ELSE IF ~Loads(modules, src)
           THEN /\ Store(slots, objs,
                         Put(t, Finish(me, Reply(id, FALSE, "Failed to load algorithm"))))
                /\ modules' = AfterLoad(modules, src, fresh)
           ELSE /\ fresh \in Refs
                /\ modules' = AfterLoad(modules, src, fresh)
                /\ Store(DictSet(slots, id, r),
                         [objs EXCEPT ![r] = [NewObj(src) EXCEPT
                                                 !.listens = IF schema = "other" THEN {}
                                                             ELSE Listens(src),
                                                 !.algo_id = id]],
                         [j \in Threads |->
                             IF j = t
                             THEN [Finish(me, IF schema = "other"
                                              THEN Reply(id, FALSE, "TypeError")
                                              ELSE Reply(id, TRUE, "")) EXCEPT
                                      !.rest = Others(slots, id)]
                             ELSE IF Contains(slots, id)
                                  THEN [th[j] EXCEPT !.stable = @ \ {Lookup(slots, id)}]
                                  ELSE th[j]])

\* ------------------------------------------------------------------ Start
StartAlgorithm(t, id, opts) ==
    /\ Free(t)
    /\ LET me == Request("Start", id, opts, 0)
       IN  IF ~Contains(slots, id)
           THEN Commit(slots, objs, Put(t, Finish(me, Reply(id, FALSE, NotInitializedReason))))
           ELSE LET r == Lookup(slots, id)
                IN  Commit(slots,
                           IF opts # "" /\ JsonValid(opts)
                           THEN [objs EXCEPT ![r].cfg = opts] ELSE objs,
                           Put(t, [me EXCEPT !.pc = "startHook", !.ref = r,
                                             !.was = objs[r].cfg]))

StartReturn(t, out) ==
    /\ th[t].pc = "startHook"
    /\ th[t].gw.result # "pending"
    /\ out \in HookOutcomes(objs[th[t].ref].src, "start")
    /\ LET r == th[t].ref
           id == th[t].key
       IN  CASE out = "ok" ->
                  Commit(slots, [objs EXCEPT ![r].state = RUNNING],
                         Put(t, Finish(th[t], Reply(id, TRUE, ""))))
             [] out = "fail" ->
                  Commit(slots, objs,
                         Put(t, Finish(th[t], Reply(id, FALSE, "Algorithm start function returned failure"))))
             [] out = "raise" ->
                  Commit(slots, objs,
                         Put(t, Finish(Raised(th[t]), Reply(id, FALSE, "Error in start function"))))

\* ------------------------------------------------------------------ Pause
\* variant: the state is assigned before the hook is called
StateAssignedFirst(out, to, state) == to

\* context_obj.state = ... follows the hook call inside the try: a hook that
\* raises leaves the state as it is
StateAfterHook(out, to, state) == IF out = "ok" THEN to ELSE state

PauseAlgorithm(t, id) ==
    /\ Free(t)
    /\ LET me == Request("Pause", id, "", 0)
       IN  IF ~Contains(slots, id)
           THEN Commit(slots, objs, Put(t, Finish(me, Reply(id, FALSE, NotInitializedReason))))
           ELSE Commit(slots, objs, Put(t, [me EXCEPT !.pc = "pauseHook", !.ref = Lookup(slots, id)]))

\* Algorithm.pause sets self.paused; a class with its own pause does not
PauseReturn(t, out) ==
    /\ th[t].pc = "pauseHook"
    /\ out \in HookOutcomes(objs[th[t].ref].src, "pause")
    /\ LET r == th[t].ref
           id == th[t].key
           base == "pause" \notin Overrides(objs[r].src)
       IN  Commit(slots,
                  [objs EXCEPT ![r].state = StateAfterHook(out, PAUSED, @),
                               ![r].paused = IF out = "ok" /\ base THEN TRUE ELSE @],
                  Put(t, IF out = "ok" THEN Finish(th[t], Reply(id, TRUE, ""))
                         ELSE Finish(Raised(th[t]),
                                     Reply(id, FALSE, "Error in pause function"))))

\* ----------------------------------------------------------------- Resume
ResumeAlgorithm(t, id) ==
    /\ Free(t)
    /\ LET me == Request("Resume", id, "", 0)
       IN  IF ~Contains(slots, id)
           THEN Commit(slots, objs, Put(t, Finish(me, Reply(id, FALSE, NotInitializedReason))))
           ELSE Commit(slots, objs, Put(t, [me EXCEPT !.pc = "resumeHook", !.ref = Lookup(slots, id)]))

ResumeReturn(t, out) ==
    /\ th[t].pc = "resumeHook"
    /\ out \in HookOutcomes(objs[th[t].ref].src, "resume")
    /\ LET r == th[t].ref
           id == th[t].key
           base == "resume" \notin Overrides(objs[r].src)
       IN  Commit(slots,
                  [objs EXCEPT ![r].state = StateAfterHook(out, RUNNING, @),
                               ![r].paused = IF out = "ok" /\ base THEN FALSE ELSE @],
                  Put(t, IF out = "ok" THEN Finish(th[t], Reply(id, TRUE, ""))
                         ELSE Finish(Raised(th[t]),
                                     Reply(id, FALSE, "Error in resume function"))))

\* ------------------------------------------------------------------- Stop
StopAlgorithm(t, id) ==
    /\ Free(t)
    /\ LET me == IF Follows(t, "Initialize", id)
                 THEN [Request("Stop", id, "", 0) EXCEPT
                          !.after = "Initialize", !.rest = th[t].rest]
                 ELSE Request("Stop", id, "", 0)
       IN  IF ~Contains(slots, id)
           THEN Commit(slots, objs, Put(t, Finish(me, Reply(id, FALSE, NotInitializedReason))))
           ELSE Commit(slots, objs, Put(t, [me EXCEPT !.pc = "stopHook", !.ref = Lookup(slots, id)]))

\* the entry is deleted only on the path where algorithm.stop() returned
StopRemoves(out) == out = "ok"

\* a delete in front of an iterator's cursor moves the cursor with the entries
AfterDel(r, d, gone) ==
    [r EXCEPT !.it = IF r.pc \in {"iter", "dataHook"} /\ d <= @ THEN @ - 1 ELSE @,
              !.stable = @ \ {gone}]

StopReturn(t, out) ==
    /\ th[t].pc = "stopHook"
    /\ out \in HookOutcomes(objs[th[t].ref].src, "stop")
    /\ LET r == th[t].ref
           id == th[t].key
       IN  IF StopRemoves(out)
           THEN IF Contains(slots, id)
                THEN Commit(DictDel(slots, id),
                            [objs EXCEPT ![r].state = STOPPED],
                            [j \in Threads |->
                                IF j = t THEN Finish(th[t], Reply(id, TRUE, "[v8.6.0]"))
                                ELSE AfterDel(th[j], IndexOf(slots, id), Lookup(slots, id))])
                ELSE \* del raises KeyError, caught by the outer handler
                     Commit(slots, [objs EXCEPT ![r].state = STOPPED],
                            Put(t, Finish(Raised(th[t]), Reply(id, FALSE, "KeyError"))))
           ELSE Commit(slots, objs,
                       Put(t, Finish(Raised(th[t]), Reply(id, FALSE, "Error in stop function"))))

\* ---------------------------------------- TradeData / CandlestickData / DepthOfBookData
\* for algo_id, algo_context in active_algorithms.items(): the iterator remembers
\* the dict's size and how many entries lie before its cursor
DataBegin(t, kind, evt) ==
    /\ Free(t)
    /\ Commit(slots, objs,
              Put(t, [Request(kind, 0, "", evt) EXCEPT
                        !.pc = "iter", !.used = Len(slots), !.stable = Registered(slots)]))

\* variant: only a running entry is handed the event
FanOutToRunning(o, hook) == HasHook(o.src, hook) /\ o.state = RUNNING

\* the one test the loop makes before the hook call: algo_context.state is not read
FanOutTo(o, hook) == HasHook(o.src, hook)

\* variant: the hook's exception leaves the loop
ContinuesUncaught(out) == out = "ok"

\* the inner try/except catches what the hook raises and the loop goes on
Continues(out) == out \in {"ok", "raise"}

DataNext(t) ==
    /\ th[t].pc = "iter"
    /\ LET me == th[t]
       IN  IF Len(slots) # me.used
           THEN \* RuntimeError: dictionary changed size during iteration
                Commit(slots, objs, Put(t, Finish(me, DataAck(me.evt))))
           ELSE IF me.it >= Len(slots)
           THEN Commit(slots, objs, Put(t, Finish(me, DataAck(me.evt))))
           ELSE LET r == slots[me.it + 1].ref
                IN  IF FanOutTo(objs[r], DataHook(me.op))
                    THEN Commit(slots, objs,
                                Put(t, [me EXCEPT !.pc = "dataHook", !.it = @ + 1, !.ref = r,
                                                  !.calls = Append(@, r)]))
                    ELSE Commit(slots, objs, Put(t, [me EXCEPT !.it = @ + 1]))

DataReturn(t, out) ==
    /\ th[t].pc = "dataHook"
    /\ th[t].gw.result # "pending"
    /\ out \in HookOutcomes(objs[th[t].ref].src, DataHook(th[t].op))
    /\ LET me == [th[t] EXCEPT !.raised = IF out = "raise" THEN @ \cup {th[t].ref} ELSE @,
                               !.ref = 0, !.gw = NoGw]
       IN  IF Continues(out)
           THEN Commit(slots, objs, Put(t, [me EXCEPT !.pc = "iter"]))
           ELSE Commit(slots, objs, Put(t, Finish(me, DataAck(me.evt))))

\* ------------------------------------------------------ OrderStatusUpdate
\* variant: the event is offered to every registered instance
OrderStatusBroadcast(s, id) == Registered(s)

\* the entry the event is routed to: the one stored under request.algoId
OrderStatusTarget(s, id) == IF Contains(s, id) THEN {Lookup(s, id)} ELSE {}

OrderStatusUpdate(t, id, msg) ==
    /\ Free(t)
    /\ LET me == Request("OrderStatus", id, "", msg)
           to == {r \in OrderStatusTarget(slots, id) : HasHook(objs[r].src, "process_order_status")}
       IN  IF to = {}
           THEN Commit(slots, objs, Put(t, Finish(me, OrderAck(id, msg))))
           ELSE \E r \in to :
                  Commit(slots, objs,
                         Put(t, [me EXCEPT !.pc = "osHook", !.ref = r, !.calls = <<r>>]))

OrderStatusReturn(t, out) ==
    /\ th[t].pc = "osHook"
    /\ th[t].gw.result # "pending"
    /\ out \in HookOutcomes(objs[th[t].ref].src, "process_order_status")
    /\ LET me == [th[t] EXCEPT !.raised = IF out = "raise" THEN @ \cup {th[t].ref} ELSE @]
       IN  Commit(slots, objs, Put(t, Finish(me, OrderAck(me.key, me.evt))))

\* -------------------------------------------------- ListRunningAlgorithms
\* request.nameFilter
NameFilters == {"", "scalp", "Scalp", "test"}

\* request.optionsJsonDataResponse of a Start: also a document that parses and
\* that ScalpBot.start rejects (no 'symbol' among its properties)
Configs == OptionInputs \cup {"{\"properties\": {}}"}

\* algo_context.name.lower()
Lower(src) ==
    CASE src = "Scalpbot" -> "scalpbot"
      [] src = "SimpleTestAlgorithm" -> "simpletestalgorithm"
      [] OTHER -> src

\* f in s, for the filters and the names above
Within(f, s) ==
    f = "" \/ <<f, s>> \in {<<"scalp", "scalpbot">>, <<"test", "simpletestalgorithm">>}

\* the filter is compared as it came, the name in lower case
Passes(f, src) == ~(f # "" /\ ~Within(f, Lower(src)))

\* variant: a paused entry is passed over
ListedRunningOnly(state) == state = RUNNING

\* algo_context.state in [AlgorithmState.RUNNING, AlgorithmState.PAUSED]
Listed(state) == state \in {RUNNING, PAUSED}

\* RunningAlgorithmInfo(info, algoId, configuration or "{}")
RunningInfo(e, o) ==
    [algoId |-> e.key, name |-> o.src,
     configuration |-> IF o.cfg # "" THEN o.cfg ELSE "{}"]

\* the metadata getters and get_options_schema of the repository's plugins
\* return constants, so no entry is dropped by the per-entry except
ListRunningAlgorithms(t, f) ==
    /\ Free(t)
    /\ LET kept == SelectSeq(slots, LAMBDA e : /\ Listed(objs[e.ref].state)
                                               /\ Passes(f, objs[e.ref].src))
           items == [i \in DOMAIN kept |-> RunningInfo(kept[i], objs[kept[i].ref])]
       IN  Commit(slots, objs,
                  Put(t, Finish(Request("ListRunning", 0, f, 0),
                                [NoResp EXCEPT !.kind = "list", !.success = TRUE,
                                               !.items = items])))

\* ------------------------------------------------ ListAvailableAlgorithms
\* load_algorithm_from_file(self, "temp_id", script_file)
TempId == -1

\* glob.glob("*.py"), in an order of the directory
Directory ==
    <<"Algorithm", "Doyen.Algorithms.ScriptManager", "Scalpbot", "SimpleTestAlgorithm">>

\* the scripts the listing loads: not the manager, not the base class, and the
\* name in lower case holds the filter
Catalogue(f) ==
    SelectSeq(Directory, LAMBDA src : /\ src \notin {"Doyen.Algorithms.ScriptManager",
                                                     "Algorithm"}
                                      /\ Passes(f, src))

\* the object the loader hands back for a listing: the module's singleton, or
\* an instance made for the occasion (0: an object no entry holds)
Loaded(mods, src) ==
    IF LoadShape(mods, src) = "instance" THEN Import(mods, src, 0) ELSE 0

\* every script of the catalogue is loaded for its metadata; the loader sets
\* algo_id and interface of what it loaded; nothing is stored in the dict
ListAvailableAlgorithms(t, f) ==
    /\ Free(t)
    /\ LET cat == Catalogue(f)
           found == SelectSeq(cat, LAMBDA src : Loads(modules, src))
           touched == {Loaded(modules, src) : src \in Range(found)}
           items == [i \in DOMAIN found |->
                        [algoId |-> 0, name |-> found[i], configuration |-> ""]]
       IN  /\ modules' = [m \in DOMAIN modules |->
                             IF m \in Range(cat) THEN AfterLoad(modules, m, 0)[m]
                             ELSE modules[m]]
           /\ Store(slots,
                    [r \in Refs |-> IF r \in touched
                                    THEN [objs[r] EXCEPT !.algo_id = TempId] ELSE objs[r]],
                    Put(t, Finish(Request("ListAvailable", 0, f, 0),
                                  [NoResp EXCEPT !.kind = "list", !.success = TRUE,
                                                 !.items = items])))

\* ---------------------------------------------------------------- gateway
\* values a plugin passes: only their Python type decides what the gateway does
PyStr(v) == v.t = "str"

NoCall == [forwarded |-> FALSE, result |-> "None"]

\* variant: no try/except around the engine call
RemoteUncaught(remote) ==
    [forwarded |-> TRUE, result |-> IF remote = "ok" THEN "response" ELSE "exception"]

\* self.client.X(request) inside try/except: the engine's response, or None
Remote(remote) == [forwarded |-> TRUE, result |-> IF remote = "ok" THEN "response" ELSE "None"]

\* AlgorithmInterface.send_order: get_algo_order_side / get_algo_order_type call
\* .upper() on their argument inside the try block
InterfaceSendOrder(side, type, remote) ==
    IF PyStr(side) /\ PyStr(type) THEN Remote(remote) ELSE NoCall

\* Algorithm.send_order passes (symbol, exchange, price, quantity, message_id,
\* simulated) positionally: message_id lands in order_side, simulated in order_type
AlgorithmSendOrder(paused, remote) ==
    IF paused THEN NoCall
    ELSE InterfaceSendOrder([t |-> "int"], [t |-> "bool"], remote)

\* ScalpBot.place_order: self.interface.send_order(symbol, exchange, price, qty, side, "limit", id)
ScalpBotPlaceOrder(paused, remote) ==
    InterfaceSendOrder([t |-> "str"], [t |-> "str"], remote)

\* Algorithm.cancel_order -> AlgorithmInterface.cancel_order
AlgorithmCancelOrder(paused, remote) == Remote(remote)

\* AlgorithmInterface.get_order_status / get_account_balance / get_all_orders
InterfaceQuery(paused, remote) == Remote(remote)

\* AlgorithmInterface.subscribe_symbol: a dict made from the response, or
\* {"success": False, "reason": str(e)}
InterfaceSubscribe(remote) ==
    [forwarded |-> TRUE, result |-> IF remote = "ok" THEN "response" ELSE "failure"]

\* Algorithm.subscribe_symbol -> AlgorithmInterface.subscribe_symbol
AlgorithmSubscribeSymbol(paused, remote) == InterfaceSubscribe(remote)

GatewayResult(op, paused, remote) ==
    CASE op = "subscribe" -> AlgorithmSubscribeSymbol(paused, remote)
      [] op = "send_order" -> AlgorithmSendOrder(paused, remote)
      [] op = "place_order" -> ScalpBotPlaceOrder(paused, remote)
      [] op = "cancel_order" -> AlgorithmCancelOrder(paused, remote)
      [] op = "query" -> InterfaceQuery(paused, remote)

\* the calls a hook makes: the start hook subscribes (ScalpBot.start), the data
\* and order-status hooks place, cancel and query
GatewayOps(src, pc) ==
    IF pc = "startHook" THEN {"subscribe"}
    ELSE {"send_order", "cancel_order", "query"}
            \cup (IF src = "Scalpbot" THEN {"place_order"} ELSE {})

\* a hook of the instance calls out through its gateway: a call that reaches
\* self.client.X(request) blocks the hook until the engine's call ends
GatewayCall(t, op) ==
    /\ th[t].pc \in {"startHook", "dataHook", "osHook"}
    /\ th[t].gw.result # "pending"
    /\ op \in GatewayOps(objs[th[t].ref].src, th[t].pc)
    /\ LET o == objs[th[t].ref]
           res == GatewayResult(op, o.paused, "ok")
       IN  Commit(slots, objs,
                  Put(t, [th[t] EXCEPT !.gw = [op |-> op, state |-> o.state,
                                               forwarded |-> res.forwarded,
                                               result |-> IF res.forwarded THEN "pending"
                                                          ELSE res.result,
                                               remote |-> ""]]))

\* the engine's call ends, with a response or with an error
GatewayAnswer(t, remote) ==
    /\ th[t].gw.result = "pending"
    /\ LET res == GatewayResult(th[t].gw.op, objs[th[t].ref].paused, remote)
       IN  Commit(slots, objs,
                  Put(t, [th[t] EXCEPT !.gw.result = res.result, !.gw.remote = remote]))

\* ------------------------------------------------------ indicator service
\* IndicatorContext(id, symbol, name, indicator); the loader sets indicator.symbol
\* Indicator.__init__: self.symbol = "default"
DefaultSymbol == "default"

\* the loader assigns indicator.symbol to a module's singleton and in the
\* wrapper's __init__; an instance it makes from a class keeps the default
NewInd(src, symbol, shape, ver) ==
    [src |-> src, symbol |-> symbol, shape |-> shape, ver |-> ver,
     own |-> IF shape = "class" THEN DefaultSymbol ELSE symbol]

\* the object the hooks of an entry run on: the instance itself, or for a
\* ModuleFunctionWrapper what the functions of its module are bound to now
Plugin(o, mods, r) == IF o[r].shape = "functions" THEN mods[o[r].src] ELSE r

\* the version of the script the hooks of an entry run
Runs(o, fs, r) == IF o[r].shape = "functions" THEN fs[o[r].src].run ELSE o[r].ver

IndicatorExists(src) == src \in IndicatorScripts \ {"NoSuchIndicator"}

\* every indicator class of the repository defines start, stop and process itself
IndicatorOutcomes(src, hook) ==
    IF hook = "start" THEN {"ok", "fail", "raise"} ELSE {"ok", "raise"}

ChartStore(s, o, r) ==
    /\ inds' = s
    /\ ith' = r
    /\ iobjs' = [x \in Refs |-> IF o[x].src \notin {"", "dead"} /\ x \notin Registered(s) /\ x # r.ref
                                THEN DeadInd ELSE o[x]]
    /\ UNCHANGED <<algoVars, plugin>>

\* a step of a handler that loads no module
ChartCommit(s, o, r) == ChartStore(s, o, r) /\ UNCHANGED loaderVars

ChartFree == ith.pc \in {"idle", "done"}

\* the context is stored before get_options_schema is called and the response
\* is built
InitializeIndicator(id, symbol, src, schema) ==
    /\ ChartFree
    /\ schema \in SchemaOutcomes(src)
    /\ LET fresh == Cardinality({x \in Refs : iobjs[x].src # ""}) + 1
           r == IF LoadShape(modules, src) = "instance"
                THEN Import(modules, src, fresh) ELSE fresh
           me == Request("InitializeIndicator", id, src, 0)
       IN  IF ~IndicatorExists(src)
           THEN ChartCommit(inds, iobjs, Finish(me, Reply(id, FALSE, "Script not found")))
           ELSE IF ~Loads(modules, src)
           THEN /\ ChartStore(inds, iobjs, Finish(me, Reply(id, FALSE, "Failed to load indicator")))
                /\ modules' = AfterLoad(modules, src, fresh)
                /\ files' = Reloaded(files, src)
           ELSE /\ fresh \in Refs
                /\ modules' = AfterLoad(modules, src, fresh)
                /\ files' = Reloaded(files, src)
                /\ ChartStore(DictSet(inds, id, r),
                              [iobjs EXCEPT ![r] = NewInd(src, symbol, LoadShape(modules, src),
                                                          files[src].saved)],
                              Finish(me, IF schema = "other"
                                         THEN Reply(id, FALSE, "Error: TypeError")
                                         ELSE Reply(id, TRUE, "")))

StartIndicator(id, opts) ==
    /\ ChartFree
    /\ LET me == Request("StartIndicator", id, opts, 0)
       IN  IF ~Contains(inds, id)
           THEN ChartCommit(inds, iobjs, Finish(me, Reply(id, FALSE, "Indicator not initialized")))
           ELSE ChartCommit(inds, iobjs, [me EXCEPT !.pc = "startHook", !.ref = Lookup(inds, id)])

StartIndicatorReturn(out) ==
    /\ ith.pc = "startHook"
    /\ ith.op = "StartIndicator"
    /\ out \in IndicatorOutcomes(iobjs[ith.ref].src, "start")
    /\ CASE out = "ok" ->
              ChartCommit(inds, iobjs, Finish(ith, Reply(ith.key, TRUE, "")))
         [] out = "fail" ->
              ChartCommit(inds, iobjs,
                          Finish(ith, Reply(ith.key, FALSE, "Indicator start function returned failure")))
         [] out = "raise" ->
              ChartCommit(inds, iobjs,
                          Finish(Raised(ith), Reply(ith.key, FALSE, "Error in start function")))

StopIndicator(id) ==
    /\ ChartFree
    /\ LET me == Request("StopIndicator", id, "", 0)
       IN  IF ~Contains(inds, id)
           THEN ChartCommit(inds, iobjs, Finish(me, Reply(id, FALSE, "Indicator not found")))
           ELSE ChartCommit(inds, iobjs, [me EXCEPT !.pc = "stopHook", !.ref = Lookup(inds, id)])

StopIndicatorReturn(out) ==
    /\ ith.pc = "stopHook"
    /\ ith.op = "StopIndicator"
    /\ out \in IndicatorOutcomes(iobjs[ith.ref].src, "stop")
    /\ IF out = "ok"
       THEN ChartCommit(DictDel(inds, ith.key), iobjs, Finish(ith, Reply(ith.key, TRUE, "")))
       ELSE ChartCommit(inds, iobjs,
                        Finish(Raised(ith), Reply(ith.key, FALSE, "Error in stop function")))

\* ------------------------------------------------- Indicator (base class)
\* Indicator.start
BaseStart(p) ==
    [p EXCEPT !.ids = NoIds, !.next = 1, !.started = TRUE, !.results = <<>>,
              !.seen = <<>>, !.given = NoIds,
              !.fed = 0, !.out = NoResult]

\* Indicator.stop
BaseStop(p) ==
    [p EXCEPT !.ids = NoIds, !.started = FALSE, !.results = <<>>,
              !.seen = <<>>, !.given = NoIds, !.out = NoResult]

\* Indicator.start, which every indicator's own start calls first
IndicatorStart ==
    /\ plugin' = BaseStart(plugin)
    /\ UNCHANGED <<algoVars, chartVars, loaderVars>>

\* Indicator.stop, which every indicator's own stop calls first
IndicatorStop ==
    /\ plugin' = BaseStop(plugin)
    /\ UNCHANGED <<algoVars, chartVars, loaderVars>>

\* variant: the counter stays where it is
Stay(n) == n

\* self.next_datapoint_id += 1
Advance(n) == n + 1

\* Indicator.get_datapoint_id(start, end): the object after the call, the
\* value returned being last.id
Identify(p, key) ==
    LET new == p.ids[key] = 0
        ids == IF new THEN [p.ids EXCEPT ![key] = p.next] ELSE p.ids
    IN  [p EXCEPT
           !.ids = ids,
           !.next = IF new THEN Advance(@) ELSE @,
           !.last = [pair |-> key, id |-> ids[key]]]

\* Indicator.get_datapoint_id(start, end) called on the object, and the call
\* written down in seen, given and ever
GetDatapointId(start, end) ==
    /\ plugin.next <= MaxIdentity
    /\ LET key == <<start, end>>
           q == Identify(plugin, key)
           first == plugin.given[key] = 0
       IN  plugin' = [q EXCEPT
                        !.seen = IF first THEN Append(@, key) ELSE @,
                        !.given = IF first THEN [@ EXCEPT ![key] = q.last.id] ELSE @,
                        !.ever = IF @[key] = 0 THEN [@ EXCEPT ![key] = q.last.id] ELSE @]
    /\ UNCHANGED <<algoVars, chartVars, loaderVars>>

\* ------------------------------------------------------------ SMAIndicator
RECURSIVE Sum(_)
Sum(q) == IF q = <<>> THEN 0 ELSE Head(q) + Sum(Tail(q))

\* q[-n:]
LastN(q, n) == IF n >= Len(q) THEN q ELSE SubSeq(q, Len(q) - n + 1, Len(q))

\* max_history = max(self.sma_period * 3, 100)
MaxHistory(w) ==
    IF w * HistoryFactor > HistoryFloor THEN w * HistoryFactor ELSE HistoryFloor

\* variant: no lookback check
ValidAlways(n, w) == TRUE

\* valid_sma after the history check, n prices being held before the new one
ValidSma(n, w) == n > MaxHistory(w) \/ ~(n < w)

\* _calculate_sma: the mean of the last w prices, None (0 here) when there
\* are fewer.  Every value of a result is kept multiplied by the period w, so
\* that the mean is the sum of the window and the close price is w * close
CalculateSma(prices, w) == IF Len(prices) < w THEN 0 ELSE Sum(LastN(prices, w))

\* SMAIndicator.start(historical_data, options) with no historical data; a
\* start with historical data is this start followed by process on each candle
SMAStart(w) ==
    /\ plugin' = [BaseStart(plugin) EXCEPT !.prices = <<>>, !.period = w]
    /\ UNCHANGED <<algoVars, chartVars, loaderVars>>

\* variant: an unchanged value counts as a fall
DirectionStrict(value, previous) == IF value > previous THEN "up" ELSE "down"

\* if latest_sma >= previous_sma: up_color, else down_color
Direction(value, previous) == IF value >= previous THEN "up" ELSE "down"

\* SMAIndicator.process([candle])
SMAProcess(start, end, close) ==
    /\ plugin.next <= MaxIdentity
    /\ LET w == plugin.period
           held == plugin.prices
           kept == IF Len(held) > MaxHistory(w) THEN LastN(held, MaxHistory(w)) ELSE held
           valid == ValidSma(Len(held), w)
           last == plugin.next - 1
           p == Identify(plugin, <<start, end>>)
           id == p.last.id
           new == last # id
           prices == IF new THEN Append(kept, close)
                     ELSE [kept EXCEPT ![Len(kept)] = close]
           value == IF valid THEN CalculateSma(prices, w) ELSE close * w
           colour == IF valid /\ Len(plugin.results) > 0
                     THEN Direction(value, plugin.results[Len(plugin.results)].value)
                     ELSE "default"
           result == [NoResult EXCEPT !.type = LINE, !.id = id, !.pair = <<start, end>>,
                                      !.value = value, !.colour = colour, !.valid = valid,
                                      !.candle = [open |-> 0, close |-> close]]
       IN  plugin' = [p EXCEPT
                        !.prices = prices,
                        !.results = IF last <= 0 \/ new \/ ~valid
                                    THEN Append(@, result) ELSE @,
                        !.fed = @ + 1,
                        !.out = result]
    /\ UNCHANGED <<algoVars, chartVars, loaderVars>>

\* ---------------------------------------------------- PriceDisplayIndicator
Min(a, b) == IF a <= b THEN a ELSE b

Max(a, b) == IF a >= b THEN a ELSE b

\* variant: a candle that closes where it opened counts as down
IsUpStrict(open, close) == close > open

\* is_up = candle['close'] >= candle['open']
IsUp(open, close) == close >= open

\* the three return statements of PriceDisplayIndicator.process; high and low
\* of the candle are copied as they come and are left out
PriceResult(mode, id, pair, open, close) ==
    LET base == [NoResult EXCEPT !.id = id, !.pair = pair,
                                 !.colour = IF IsUp(open, close) THEN "up" ELSE "down",
                                 !.candle = [open |-> open, close |-> close]]
    IN  IF mode = "bar"
        THEN [base EXCEPT !.type = BAR, !.bottom = Min(open, close), !.top = Max(open, close)]
        ELSE IF mode = "line"
        THEN [base EXCEPT !.type = LINE, !.value = close]
        ELSE [base EXCEPT !.type = CANDLESTICK, !.open = open, !.close = close]

\* PriceDisplayIndicator.process([candle]) on the object p
PriceFeed(p, c) ==
    LET q == Identify(p, c.pair)
    IN  [q EXCEPT !.fed = @ + 1,
                  !.out = PriceResult(p.mode, q.last.id, c.pair, c.open, c.close)]

Candles == [pair : Pairs, open : Prices, close : Prices]

\* request.historicalData: none, or one candle of the open window
Histories == {<<>>} \cup {<<c>> : c \in {d \in Candles : d.pair = OpenWindow}}

\* PriceDisplayIndicator.start(historical_data, options): the result of each
\* historical candle is appended to historical_results
PriceStart(mode, hist) ==
    /\ LET p == [BaseStart(plugin) EXCEPT !.mode = mode]
           q == IF hist = <<>> THEN p ELSE PriceFeed(p, hist[1])
       IN  plugin' = IF hist = <<>> THEN p ELSE [q EXCEPT !.results = Append(@, q.out)]
    /\ UNCHANGED <<algoVars, chartVars, loaderVars>>

PriceProcess(c) ==
    /\ plugin.next <= MaxIdentity
    /\ plugin' = PriceFeed(plugin, c)
    /\ UNCHANGED <<algoVars, chartVars, loaderVars>>

\* ------------------------------------------------------------------- Next
Lifecycle(t) ==
    \/ \E id \in Ids, opts \in OptionInputs : StartAlgorithm(t, id, opts)
    \/ \E out \in {"ok", "fail", "raise"} : StartReturn(t, out)
    \/ \E id \in Ids : PauseAlgorithm(t, id)
    \/ \E out \in {"ok", "raise"} : PauseReturn(t, out)
    \/ \E id \in Ids : ResumeAlgorithm(t, id)
    \/ \E out \in {"ok", "raise"} : ResumeReturn(t, out)
    \/ \E op \in {"subscribe", "send_order", "place_order", "cancel_order", "query"} :
          GatewayCall(t, op)
    \/ \E remote \in {"ok", "raise"} : GatewayAnswer(t, remote)

Shared(t, names) ==
    \/ \E id \in Ids, src \in names, schema \in {"str", "other", "raise"} :
          InitializeAlgorithm(t, id, src, schema)
    \/ \E id \in Ids : StopAlgorithm(t, id)
    \/ \E out \in {"ok", "raise"} : StopReturn(t, out)
    \/ \E kind \in DataKinds, evt \in EventIds : DataBegin(t, kind, evt)
    \/ DataNext(t)
    \/ \E out \in {"ok", "raise"} : DataReturn(t, out)
    \/ \E id \in Ids, msg \in EventIds : OrderStatusUpdate(t, id, msg)
    \/ \E out \in {"ok", "raise"} : OrderStatusReturn(t, out)

\* one worker, one request at a time
OneWorker == \A t \in Threads : t # 1 => th[t] = Idle

NextSerial == (\E t \in Threads : Lifecycle(t) \/ Shared(t, Scripts)) /\ OneWorker'

Spec == Init /\ [][NextSerial]_vars

\* the scripts the interleaved workers are asked for: the two plugins and a
\* name with no file
PluginScripts == {"Scalpbot", "SimpleTestAlgorithm", "NoSuchScript"}

\* the workers of the pool run their handlers interleaved
NextConc == \E t \in Threads : Shared(t, PluginScripts)

SpecConc == Init /\ [][NextConc]_vars

\* fan-out on one worker, with the engine as a party of its own: the worker's
\* steps are taken whenever they can be, the engine is free never to answer
Program(t) ==
    \/ \E id \in Ids, src \in PluginScripts, schema \in {"str", "other", "raise"} :
          InitializeAlgorithm(t, id, src, schema)
    \/ \E kind \in DataKinds, evt \in EventIds : DataBegin(t, kind, evt)
    \/ DataNext(t)
    \/ \E out \in {"ok", "raise"} : DataReturn(t, out)
    \/ \E op \in {"send_order", "place_order", "cancel_order", "query"} : GatewayCall(t, op)

Engine(t) == \E remote \in {"ok", "raise"} : GatewayAnswer(t, remote)

NextGateway == (Program(1) \/ Engine(1)) /\ OneWorker'

SpecGateway == Init /\ [][NextGateway]_vars /\ WF_vars(Program(1) /\ OneWorker')

\* the registry as a client drives it, one request at a time: lifecycle
\* requests, fan-outs and listings, with hooks that call nothing out
Registry(t) ==
    \/ \E id \in Ids, src \in PluginScripts, schema \in {"str", "other", "raise"} :
          InitializeAlgorithm(t, id, src, schema)
    \/ \E id \in Ids, opts \in Configs : StartAlgorithm(t, id, opts)
    \/ \E out \in {"ok", "fail", "raise"} : StartReturn(t, out)
    \/ \E id \in Ids : PauseAlgorithm(t, id)
    \/ \E out \in {"ok", "raise"} : PauseReturn(t, out)
    \/ \E id \in Ids : ResumeAlgorithm(t, id)
    \/ \E out \in {"ok", "raise"} : ResumeReturn(t, out)
    \/ \E id \in Ids : StopAlgorithm(t, id)
    \/ \E out \in {"ok", "raise"} : StopReturn(t, out)
    \/ \E kind \in DataKinds, evt \in EventIds : DataBegin(t, kind, evt)
    \/ DataNext(t)
    \/ \E out \in {"ok", "raise"} : DataReturn(t, out)
    \/ \E id \in Ids, msg \in EventIds : OrderStatusUpdate(t, id, msg)
    \/ \E out \in {"ok", "raise"} : OrderStatusReturn(t, out)
    \/ \E f \in NameFilters : ListRunningAlgorithms(t, f)

NextRegistry == (\E t \in Threads : Registry(t)) /\ OneWorker'

SpecRegistry == Init /\ [][NextRegistry]_vars

\* the two listings among the requests that fill the registry
NextListing ==
    /\ \E t \in Threads :
          \/ \E id \in Ids, src \in PluginScripts, schema \in {"str", "other", "raise"} :
                InitializeAlgorithm(t, id, src, schema)
          \/ \E id \in Ids, opts \in Configs : StartAlgorithm(t, id, opts)
          \/ \E out \in {"ok", "fail", "raise"} : StartReturn(t, out)
          \/ \E id \in Ids : StopAlgorithm(t, id)
          \/ \E out \in {"ok", "raise"} : StopReturn(t, out)
          \/ \E f \in NameFilters : ListRunningAlgorithms(t, f)
          \/ \E f \in NameFilters : ListAvailableAlgorithms(t, f)
    /\ OneWorker'

SpecListing == Init /\ [][NextListing]_vars

\* the lifecycle of entries made from a script of functions
NextAdapter ==
    /\ \E t \in Threads :
          \/ \E id \in Ids, src \in AdapterScripts, schema \in {"str", "other", "raise"} :
                InitializeAlgorithm(t, id, src, schema)
          \/ \E id \in Ids, opts \in Configs : StartAlgorithm(t, id, opts)
          \/ \E out \in {"ok", "fail", "raise"} : StartReturn(t, out)
          \/ \E id \in Ids : PauseAlgorithm(t, id)
          \/ \E out \in {"ok", "raise"} : PauseReturn(t, out)
          \/ \E id \in Ids : StopAlgorithm(t, id)
          \/ \E out \in {"ok", "raise"} : StopReturn(t, out)
    /\ OneWorker'

SpecAdapter == Init /\ [][NextAdapter]_vars

\* the indicator service, one request at a time
NextCharts ==
    \/ \E src \in Editable : EditScript(src)
    \/ \E id \in Ids, symbol \in Symbols, src \in IndicatorScripts,
          schema \in {"str", "other", "raise"} : InitializeIndicator(id, symbol, src, schema)
    \/ \E id \in Ids, opts \in OptionInputs : StartIndicator(id, opts)
    \/ \E out \in {"ok", "fail", "raise"} : StartIndicatorReturn(out)
    \/ \E id \in Ids : StopIndicator(id)
    \/ \E out \in {"ok", "raise"} : StopIndicatorReturn(out)

SpecCharts == Init /\ [][NextCharts]_vars

\* ------------------------------------------------------------ ProcessData
\* what indicator.process(candlesticks) does: a result, nothing, an exception
ProcessOutcomes == {"ok", "none", "raise"}

\* DataMessageResponse(id="", data=None)
NoData == [id |-> 0, data |-> FALSE]

\* one response is yielded for every value of active_indicators; process is
\* called when indicator.indicator.symbol is the request's symbol; a result
\* gives a response with data, None or an exception a response with the id alone
ProcessData(symbol, outs) ==
    /\ ChartFree
    /\ outs \in [DOMAIN inds -> ProcessOutcomes]
    /\ LET hit(i) == iobjs[inds[i].ref].own = symbol
           items == [i \in DOMAIN inds |->
                        IF ~hit(i) THEN NoData
                        ELSE [id |-> inds[i].key, data |-> outs[i] = "ok"]]
           called == SelectSeq(inds, LAMBDA e : iobjs[e.ref].own = symbol)
           me == [Request("ProcessData", 0, symbol, 0) EXCEPT
                     !.calls = [i \in DOMAIN called |-> called[i].ref],
                     !.raised = {inds[i].ref : i \in {j \in DOMAIN inds :
                                                        hit(j) /\ outs[j] = "raise"}}]
       IN  ChartCommit(inds, iobjs,
                       Finish(me, [NoResp EXCEPT !.kind = "stream", !.success = TRUE,
                                                 !.items = items]))

\* the indicators that load, registered, fed and stopped
DataScripts == {"SMA", "PriceDisplay", "UserIndicator"}

NextData ==
    \/ \E id \in Ids, symbol \in Symbols, src \in DataScripts,
          schema \in {"str", "other", "raise"} : InitializeIndicator(id, symbol, src, schema)
    \/ \E symbol \in Symbols \cup {DefaultSymbol},
          outs \in [DOMAIN inds -> ProcessOutcomes] : ProcessData(symbol, outs)
    \/ \E id \in Ids : StopIndicator(id)
    \/ \E out \in {"ok", "raise"} : StopIndicatorReturn(out)

SpecData == Init /\ [][NextData]_vars

\* the hooks of one Indicator object, called in any order
NextIdentity ==
    \/ IndicatorStart
    \/ IndicatorStop
    \/ \E p \in Pairs : GetDatapointId(p[1], p[2])

SpecIdentity == Init /\ [][NextIdentity]_vars

\* one SMAIndicator object: start, stop and process in any order
NextSMA ==
    \/ \E w \in Periods : SMAStart(w)
    \/ IndicatorStop
    \/ plugin.fed < MaxFeed /\ \E p \in Pairs, c \in Prices : SMAProcess(p[1], p[2], c)

SpecSMA == Init /\ [][NextSMA]_vars

\* one SMAIndicator object over a long feed: the candle of one open window
\* arrives again and again, at one price
NextHistory ==
    \/ \E w \in Periods : SMAStart(w)
    \/ plugin.fed < LongFeed /\ SMAProcess(OpenWindow[1], OpenWindow[2], MaxPrice)

SpecHistory == Init /\ [][NextHistory]_vars

\* one PriceDisplayIndicator object: start, stop and process in any order
NextPrice ==
    \/ \E mode \in DisplayModes, hist \in Histories : PriceStart(mode, hist)
    \/ IndicatorStop
    \/ plugin.fed < MaxFeed /\ \E c \in Candles : PriceProcess(c)

SpecPrice == Init /\ [][NextPrice]_vars

\* ================================================================= claims
Count(q, x) == Cardinality({i \in DOMAIN q : q[i] = x})

Done(t, ops) == th[t].pc = "done" /\ th[t].op \in ops

\* C1: after any Stop call on a registered id returns, also when the plugin's
\* stop hook raised, the id is no longer in the Registry.
C1_StopAlwaysRemoves ==
    /\ \A t \in Threads :
         Done(t, {"Stop"}) /\ th[t].resp.reason # NotInitializedReason
            => ~Contains(slots, th[t].key)
    /\ (ith.pc = "done" /\ ith.op = "StopIndicator" /\ ith.resp.reason # "Indicator not found")
            => ~Contains(inds, ith.key)

SaysNotInitialized(reason) ==
    reason \in {"Algorithm not initialized", "Indicator not initialized"}

\* C2: a Start, Pause, Resume or Stop request whose instanceId has no Registry
\* entry returns success=false with reason "not initialized", calls no hook
\* (the handler returns at once) and leaves the Registry as it was.
C2_UnknownIdRejected ==
    [][ /\ \A t \in Threads :
             ( /\ Free(t) /\ th'[t] # th[t]
               /\ th'[t].op \in {"Start", "Pause", "Resume", "Stop"}
               /\ ~Contains(slots, th'[t].key) )
             => /\ th'[t].pc = "done"
                /\ ~th'[t].resp.success
                /\ SaysNotInitialized(th'[t].resp.reason)
                /\ slots' = slots
        /\ ( /\ ChartFree /\ ith' # ith
             /\ ith'.op \in {"StartIndicator", "StopIndicator"}
             /\ ~Contains(inds, ith'.key) )
           => /\ ith'.pc = "done"
              /\ ~ith'.resp.success
              /\ SaysNotInitialized(ith'.resp.reason)
              /\ inds' = inds
      ]_vars

\* C3: on a live entry Start changes the lifecycle state only from Initialized
\* to Running, Pause only from Running to Paused, Resume only from Paused to
\* Running.
C3_LifecycleTransitions ==
    [][ \A t \in Threads :
          LET r == th[t].ref
          IN  (r # 0 /\ th[t].op \in {"Start", "Pause", "Resume"}
                 /\ objs'[r].state # objs[r].state)
              => <<th[t].op, objs[r].state, objs'[r].state>> \in
                   { <<"Start", INITIALIZED, RUNNING>>,
                     <<"Pause", RUNNING, PAUSED>>,
                     <<"Resume", PAUSED, RUNNING>> }
      ]_vars

\* C4: when a fan-out has returned, every registered entry that has the hook
\* was called exactly once, whichever hooks raised, and the ack was returned.
C4_FanOutIsolation ==
    \A t \in Threads :
        Done(t, DataKinds) =>
            /\ th[t].resp.kind = "ack"
            /\ \A r \in Registered(slots) :
                 HasHook(objs[r].src, DataHook(th[t].op)) => Count(th[t].calls, r) = 1

\* a fan-out whose first hook raised and whose next entry was still called
C4_Witness ==
    \E t \in Threads :
        /\ Done(t, DataKinds)
        /\ Len(th[t].calls) >= 2
        /\ th[t].calls[1] \in th[t].raised
        /\ th[t].resp.kind = "ack"

\* C5: no two hook calls run at the same time against the same plugin instance.
C5_HooksMutuallyExclusive ==
    \A t, u \in Threads :
        (t # u /\ th[t].pc \in HookPcs /\ th[u].pc \in HookPcs) => th[t].ref # th[u].ref

\* C6: while a data hook call on an instance is in flight no teardown of that
\* instance runs and its entry has not been removed by Stop.
C6_StopWaitsForHook ==
    \A t \in Threads :
        th[t].pc = "dataHook" =>
            /\ objs[th[t].ref].state # STOPPED
            /\ \A u \in Threads : ~(th[u].pc = "stopHook" /\ th[u].ref = th[t].ref)

\* C7: a fan-out that has returned called the hook exactly once on every entry
\* that stayed registered from its beginning on, whatever Initialize and Stop
\* did to other ids meanwhile.
C7_FanOutUnderRegistryChange ==
    \A t \in Threads :
        Done(t, DataKinds) => \A r \in th[t].stable : Count(th[t].calls, r) = 1

C9_AckEchoesCorrelation ==
    \A t \in Threads :
        Done(t, DataKinds) => (th[t].resp.kind = "ack" /\ th[t].resp.ack = th[t].evt)

\* an ack for the last event id, returned although a hook raised
C9_Witness ==
    \E t \in Threads :
        /\ Done(t, DataKinds)
        /\ th[t].evt = NumEvents
        /\ th[t].raised # {}
        /\ th[t].resp.ack = NumEvents

\* C10: an order-status event calls the hook of at most one instance, the one
\* registered under the event's instanceId, none when the id is not
\* registered, and the ack echoes instanceId and messageId.
C10_OrderStatusRouting ==
    \A t \in Threads :
        Done(t, {"OrderStatus"}) =>
            /\ Len(th[t].calls) <= 1
            /\ \A r \in Range(th[t].calls) :
                 Contains(slots, th[t].key) /\ Lookup(slots, th[t].key) = r
            /\ ~Contains(slots, th[t].key) => th[t].calls = <<>>
            /\ th[t].resp.kind = "osack"
            /\ th[t].resp.algoId = th[t].key
            /\ th[t].resp.ack = th[t].evt

\* an order-status hook raised while another instance was registered too
C10_Witness ==
    \E t \in Threads :
        /\ Done(t, {"OrderStatus"})
        /\ th[t].raised # {}
        /\ Len(slots) >= 2
        /\ th[t].resp.kind = "osack"

\* C11: a successful Initialize of an id followed at once by Stop of that id
\* leaves the Registry without the id and with the entries of the other ids
\* exactly as they were before the Initialize.
C11_InitializeStopRoundTrip ==
    \A t \in Threads :
        (Done(t, {"Stop"}) /\ th[t].after = "Initialize") =>
            /\ ~Contains(slots, th[t].key)
            /\ slots = th[t].rest

\* C12: every instanceId has at most one Registry entry, and no entry that is
\* in the Registry is in the Stopped state.
C12_OneEntryNoneStopped ==
    /\ \A i, j \in DOMAIN slots : slots[i].key = slots[j].key => i = j
    /\ \A r \in Registered(slots) : objs[r].state # STOPPED

\* a Stop has returned success and removed its id while another id's entry,
\* started before, is still registered
C12_Witness ==
    \E t \in Threads :
        /\ Done(t, {"Stop"}) /\ th[t].resp.success
        /\ ~Contains(slots, th[t].key)
        /\ \E r \in Registered(slots) : objs[r].state = RUNNING

\* C13: an Initialize that follows a Stop which returned success for the same
\* id, naming a script the loader resolves, returns success and registers a
\* fresh entry: state Initialized, no stored configuration, and an instance
\* that did not exist before the call (so not the one that was stopped).
C13_ReinitializeAfterStop ==
    [][ \A t \in Threads :
          ( /\ th'[t] # th[t]
            /\ th'[t].op = "Initialize"
            /\ Follows(t, "Stop", th'[t].key)
            /\ ScriptExists(th'[t].arg)
            /\ Loads(modules, th'[t].arg) )
          => /\ th'[t].resp.success
             /\ Contains(slots', th'[t].key)
             /\ LET r == Lookup(slots', th'[t].key)
                IN  /\ objs'[r].state = INITIALIZED
                    /\ objs'[r].cfg = ""
                    /\ objs[r] = NoObj
                    /\ \A i \in DOMAIN slots' : slots'[i].ref = r => slots'[i].key = th'[t].key
      ]_vars

\* the script that exports a ready-made instance has been initialized again,
\* at once after its Stop returned success, and the stopped instance is gone
C13_Witness ==
    \E t \in Threads :
        /\ Done(t, {"Initialize"})
        /\ th[t].after = "Stop"
        /\ th[t].resp.success
        /\ th[t].arg = "SimpleTestAlgorithm"
        /\ \E r \in Refs : objs[r] = Retired

\* C14: a fan-out or an order-status event never starts a hook call on an
\* instance whose Stop has returned success.
C14_StoppedInstanceNotCalled ==
    [][ \A t \in Threads :
          (th'[t].pc \in {"dataHook", "osHook"} /\ th'[t].calls # th[t].calls)
          => /\ objs[th'[t].ref].state # STOPPED
             /\ th'[t].ref \in Registered(slots)
      ]_vars

\* a data hook is running on a registered instance after another instance was
\* stopped with success
C14_Witness ==
    \E t \in Threads :
        /\ th[t].pc = "dataHook"
        /\ \E r \in Refs : objs[r] = Retired

\* C15: an Initialize call that returns success=false leaves the Registry as
\* it was, whatever made it fail.
C15_FailedInitializeChangesNothing ==
    [][ /\ \A t \in Threads :
             ( /\ th'[t] # th[t]
               /\ th'[t].pc = "done" /\ th'[t].op = "Initialize"
               /\ ~th'[t].resp.success )
             => slots' = slots
        /\ ( /\ ith' # ith
             /\ ith'.pc = "done" /\ ith'.op = "InitializeIndicator"
             /\ ~ith'.resp.success )
           => inds' = inds
      ]_vars

LifecycleOps == {"Initialize", "Start", "Pause", "Resume", "Stop"}

ChartOps == {"InitializeIndicator", "StartIndicator", "StopIndicator"}

\* the response answers the request r: a response message with the request's id
Structured(r) ==
    /\ r.resp.kind = "lifecycle"
    /\ r.resp.algoId = r.key
    /\ r.resp.success \in BOOLEAN
    /\ ~r.resp.success => r.resp.reason # ""

\* a raise of the loader or of the plugin hook is reported as a failure
Reported(r) ==
    (\/ r.raised # {}
     \/ r.op \in {"Initialize", "InitializeIndicator"}
           /\ (ScriptExists(r.arg) \/ IndicatorExists(r.arg)) /\ ~Executes(r.arg))
    => (~r.resp.success /\ r.resp.reason # "")

\* C16: every Initialize, Start, Pause, Resume and Stop call ends with a
\* response message that carries the request's instanceId, success and reason;
\* when the loader or the plugin hook raised, it is success=false with a reason.
C16_StructuredResponses ==
    /\ \A t \in Threads :
         Done(t, LifecycleOps) => (Structured(th[t]) /\ Reported(th[t]))
    /\ (ith.pc = "done" /\ ith.op \in ChartOps) => (Structured(ith) /\ Reported(ith))

\* a Start whose hook raised has returned its failure response while another
\* entry is registered
C16_Witness ==
    \E t \in Threads :
        /\ Done(t, {"Start"})
        /\ th[t].raised # {}
        /\ th[t].resp = Reply(th[t].key, FALSE, "Error in start function")
        /\ Len(slots) = NumIds

\* C17: when the engine call made by a gateway operation raises, the plugin
\* gets None from order, cancel and query operations and a failure result
\* from subscribe, never the exception.
C17_RemoteFailureIsAResult ==
    \A t \in Threads :
        th[t].gw.remote = "raise" =>
            /\ th[t].gw.result = IF th[t].gw.op = "subscribe" THEN "failure" ELSE "None"
            /\ th[t].pc \in HookPcs

\* the start hook's subscribe got the failure result after the engine call raised
C17_Witness ==
    \E t \in Threads :
        /\ th[t].pc = "startHook"
        /\ th[t].gw.op = "subscribe"
        /\ th[t].gw.remote = "raise"
        /\ th[t].gw.result = "failure"

C19_IdentityStableAndIncreasing ==
    plugin.started =>
        /\ (plugin.last.id # 0 /\ plugin.given[plugin.last.pair] # 0) =>
               plugin.last.id = plugin.given[plugin.last.pair]
        /\ \A i, j \in DOMAIN plugin.seen :
               i < j => plugin.given[plugin.seen[i]] < plugin.given[plugin.seen[j]]
        /\ \A p, q \in Pairs :
               (p # q /\ plugin.ids[p] # 0 /\ plugin.ids[q] # 0)
                  => plugin.ids[p] # plugin.ids[q]

\* every pair has been seen since the start, and the latest call asked again
\* for the pair that was seen first
C19_Witness ==
    /\ plugin.started
    /\ Len(plugin.seen) = Cardinality(Pairs)
    /\ plugin.last.pair = plugin.seen[1]
    /\ plugin.last.id = 1

\* C20: whatever start, process and stop calls were made on the instance, a
\* pair that was given an identity before is given that identity again.
C20_IdentityMemoizedForLife ==
    plugin.last.id # 0 => plugin.last.id = plugin.ever[plugin.last.pair]

\* C21: when an SMA observation arrives for the window of the observation just
\* before it, a valid one adds no record and leaves the latest record of the
\* history holding the value computed from it, and an invalid one is appended
\* as a new record.
C21_SameWindowUpdatesInPlace ==
    [][ ( /\ plugin'.fed = plugin.fed + 1
          /\ plugin.out # NoResult
          /\ plugin'.out.pair = plugin.out.pair )
        => LET out == plugin'.out
               n == Len(plugin'.results)
           IN  IF out.valid
               THEN /\ n = Len(plugin.results)
                    /\ n > 0
                    /\ plugin'.results[n].pair = out.pair
                    /\ plugin'.results[n].value = out.value
               ELSE plugin'.results = Append(plugin.results, out)
      ]_vars

\* C22: after a start with lookback W and no history, each of the first W-1
\* observations gets a result that is not valid: the close price with the
\* default colour.
C22_NoValidBeforeLookback ==
    (plugin.started /\ plugin.fed >= 1 /\ plugin.fed < plugin.period) =>
        /\ ~plugin.out.valid
        /\ plugin.out.colour = "default"
        /\ plugin.out.value = plugin.out.candle.close * plugin.period

\* the second observation after a start with the longest lookback: sentinel
\* value, default colour, and a record of its own in the history
C22_Witness ==
    /\ plugin.started
    /\ plugin.period = MaxPeriod
    /\ plugin.fed = MaxPeriod - 1
    /\ ~plugin.out.valid
    /\ plugin.out.colour = "default"
    /\ plugin.out.candle.close = MaxPrice
    /\ Len(plugin.results) = plugin.fed

\* C23: the price buffer and the result history of an SMA instance never hold
\* more than the history bound of its lookback, max(3 W, 100), and the entry
\* of the current call.
C23_RetainedHistoryBounded ==
    /\ Len(plugin.prices) <= MaxHistory(plugin.period) + 1
    /\ Len(plugin.results) <= MaxHistory(plugin.period) + 1

\* C29: the result of PriceDisplay's process has the up colour exactly when
\* close >= open; started with displayMode "line" it is a LINE record whose
\* value is the close, with "bar" a BAR record, with any other mode a
\* CANDLESTICK record.
C29_PriceDisplayRecord ==
    (plugin.started /\ plugin.out # NoResult) =>
        LET out == plugin.out
        IN  /\ out.colour = IF out.candle.close >= out.candle.open THEN "up" ELSE "down"
            /\ plugin.mode = "line" => (out.type = LINE /\ out.value = out.candle.close)
            /\ plugin.mode = "bar" => out.type = BAR
            /\ plugin.mode \notin {"line", "bar"} => out.type = CANDLESTICK

\* started with "line", a candle that opened low and closed high gave a LINE
\* record with the close as value, coloured up
C29_Witness ==
    /\ plugin.started
    /\ plugin.mode = "line"
    /\ plugin.out.candle = [open |-> 1, close |-> MaxPrice]
    /\ plugin.out.type = LINE
    /\ plugin.out.value = MaxPrice
    /\ plugin.out.colour = "up"

\* C24: no two Registry entries hold the same plugin instance: the hooks of
\* two entries never run on the same object, whatever Initialize and Stop
\* calls were made and whatever the scripts export.
C24_InstanceOwnedByOneEntry ==
    /\ \A i, j \in DOMAIN slots : i # j => slots[i].ref # slots[j].ref
    /\ \A i, j \in DOMAIN inds :
         i # j => Plugin(iobjs, modules, inds[i].ref) # Plugin(iobjs, modules, inds[j].ref)

\* the resolution the exports of a script call for
Priority(src) ==
    IF "singleton" \in Exports(src) THEN "instance"
    ELSE IF "subclass" \in Exports(src) THEN "class"
    ELSE IF {"get_options_schema", "start", "process"} \subseteq Exports(src) THEN "functions"
    ELSE "none"

\* C25: an Initialize of a script that exists registers the exported singleton
\* if the script has one, else an instance of its plugin subclass, else the
\* function adapter if it exports get_options_schema, start and process, and
\* fails without registering anything if it has none of these.
C25_LoaderPriority ==
    [][ /\ ( /\ ith' # ith
             /\ ith'.pc = "done" /\ ith'.op = "InitializeIndicator"
             /\ IndicatorExists(ith'.arg) )
           => IF Priority(ith'.arg) = "none"
              THEN ~ith'.resp.success /\ inds' = inds
              ELSE /\ Contains(inds', ith'.key)
                   /\ iobjs'[Lookup(inds', ith'.key)].shape = Priority(ith'.arg)
        /\ \A t \in Threads :
             ( /\ th'[t] # th[t]
               /\ th'[t].pc = "done" /\ th'[t].op = "Initialize"
               /\ ScriptExists(th'[t].arg) )
             => IF Priority(th'[t].arg) = "none"
                THEN ~th'[t].resp.success /\ slots' = slots
                ELSE th'[t].resp.success /\ Contains(slots', th'[t].key)
      ]_vars

\* C26: an Initialize that loads its script registers an instance that runs
\* the version saved at the time of the call, and every entry registered
\* before under another id keeps its instance, the version it runs and the
\* object its hooks run on.
C26_HotReload ==
    [][ ( /\ ith' # ith
          /\ ith'.pc = "done" /\ ith'.op = "InitializeIndicator"
          /\ IndicatorExists(ith'.arg) /\ Loads(modules, ith'.arg) )
        => /\ Contains(inds', ith'.key)
           /\ Runs(iobjs', files', Lookup(inds', ith'.key)) = files[ith'.arg].saved
           /\ \A i \in DOMAIN inds :
                inds[i].key # ith'.key =>
                    LET r == inds[i].ref
                    IN  /\ r \in Registered(inds')
                        /\ iobjs'[r] = iobjs[r]
                        /\ Runs(iobjs', files', r) = Runs(iobjs, files, r)
                        /\ Plugin(iobjs', modules', r) = Plugin(iobjs, modules, r)
      ]_vars

\* C27: when a fan-out has returned, it has called the hook of a registered
\* entry if and only if the Initialize response of that entry declared the
\* event kind; and what the per-event probe answers for an entry is at every
\* moment what its Initialize declared.
C27_FanOutFollowsDeclaration ==
    /\ \A t \in Threads :
          Done(t, DataKinds) =>
              \A r \in Registered(slots) :
                  Count(th[t].calls, r) >= 1 <=> th[t].op \in objs[r].listens
    /\ \A r \in Registered(slots) :
          {kind \in DataKinds : HasHook(objs[r].src, DataHook(kind))} = objs[r].listens

\* a trade fan-out that called a started ScalpBot, which has no process_trade
\* of its own, and a second entry
C27_Witness ==
    \E t \in Threads :
        /\ Done(t, {"Trade"})
        /\ Len(th[t].calls) = 2
        /\ \E r \in Range(th[t].calls) :
              objs[r].src = "Scalpbot" /\ objs[r].state = RUNNING

\* C28: the response of ListRunning holds exactly one item for every entry of
\* the registry that is Running or Paused and whose name passes the filter, and
\* no other item; the item carries the entry's id and the configuration stored
\* last, "{}" when none was stored.
C28_ListRunning ==
    \A t \in Threads :
        Done(t, {"ListRunning"}) =>
            LET items == th[t].resp.items
                of(id) == {k \in DOMAIN items : items[k].algoId = id}
            IN  /\ th[t].resp.success
                /\ \A i \in DOMAIN slots :
                      LET o == objs[slots[i].ref]
                      IN  Cardinality(of(slots[i].key)) =
                            IF o.state \in {RUNNING, PAUSED} /\ Passes(th[t].arg, o.src)
                            THEN 1 ELSE 0
                /\ \A k \in DOMAIN items :
                      /\ Contains(slots, items[k].algoId)
                      /\ LET o == objs[Lookup(slots, items[k].algoId)]
                         IN  items[k].configuration = IF o.cfg = "" THEN "{}" ELSE o.cfg

\* a filtered listing of one paused entry, started with a configuration, beside
\* an entry that was initialized and never started
C28_Witness ==
    \E t \in Threads :
        /\ Done(t, {"ListRunning"})
        /\ th[t].arg = "scalp"
        /\ Len(slots) = 2
        /\ Len(th[t].resp.items) = 1
        /\ \E i, j \in DOMAIN slots :
              /\ objs[slots[i].ref].state = PAUSED
              /\ objs[slots[i].ref].cfg # ""
              /\ th[t].resp.items[1].algoId = slots[i].key
              /\ objs[slots[j].ref].state = INITIALIZED

\* C30: a Start that returns success=false leaves the entry as the request
\* found it: same lifecycle state, same stored configuration.
C30_FailedStartChangesNothing ==
    [][ \A t \in Threads :
          (th[t].pc = "startHook" /\ th'[t].pc = "done" /\ ~th'[t].resp.success) =>
              /\ objs'[th[t].ref].state = objs[th[t].ref].state
              /\ objs'[th[t].ref].cfg = th[t].was
      ]_vars

\* C31: when the pause or the resume hook raises, the call returns a response
\* with success=false, the entry stays in the registry and its lifecycle state
\* is what it was before the call.
C31_FailedPauseResumeKeepsState ==
    [][ \A t \in Threads :
          (/\ th[t].pc \in {"pauseHook", "resumeHook"}
           /\ th'[t].pc = "done"
           /\ th[t].ref \in th'[t].raised) =>
              /\ th'[t].resp.kind = "lifecycle" /\ ~th'[t].resp.success
              /\ slots' = slots
              /\ Lookup(slots', th[t].key) = th[t].ref
              /\ objs'[th[t].ref].state = objs[th[t].ref].state
      ]_vars

\* a Pause of a running entry whose pause hook raised
C31_Witness ==
    \E t \in Threads :
        /\ Done(t, {"Pause"})
        /\ th[t].raised # {}
        /\ ~th[t].resp.success
        /\ Contains(slots, th[t].key)
        /\ objs[Lookup(slots, th[t].key)].state = RUNNING

\* C32: Algorithm.send_order on an instance that is not paused forwards the
\* order to the engine and returns the engine's response.
C32_SendOrderForwards ==
    \A t \in Threads :
        (th[t].gw.op = "send_order" /\ ~objs[th[t].ref].paused) =>
            /\ th[t].gw.forwarded
            /\ th[t].gw.remote = "ok" => th[t].gw.result = "response"

\* C33: for an instance with the base class's pause and resume, the paused flag
\* that gates send_order is set exactly when the entry's state is Paused.
C33_PausedFlagFollowsState ==
    \A r \in Registered(slots) :
        {"pause", "resume"} \cap Overrides(objs[r].src) = {} =>
            (objs[r].paused <=> objs[r].state = PAUSED)

\* C34: an Initialize on an id that has a live entry puts a new instance under
\* the id, Initialized and with no configuration, in place of the old one,
\* whose stop hook is not called; fan-outs and order-status events are only
\* ever delivered to instances the registry holds, so never again to the old one.
C34_ReinitializeReplaces ==
    [][ /\ \A t \in Threads :
            (/\ th'[t].op = "Initialize" /\ th'[t].pc = "done" /\ th'[t].resp.success
             /\ <<slots, objs>> # <<slots', objs'>>
             /\ Contains(slots, th'[t].key)) =>
                LET id == th'[t].key
                    old == Lookup(slots, id)
                    new == Lookup(slots', id)
                IN  /\ Cardinality({i \in DOMAIN slots' : slots'[i].key = id}) = 1
                    /\ objs[new] = NoObj
                    /\ objs'[new].state = INITIALIZED /\ objs'[new].cfg = ""
                    /\ old \notin Registered(slots')
                    /\ objs'[old].state # STOPPED
                    /\ \A u \in Threads : th'[u].pc # "stopHook"
        /\ \A t \in Threads :
            th'[t].pc \in {"dataHook", "osHook"} => th'[t].ref \in Registered(slots')
      ]_vars

\* a fan-out that called the one instance the registry holds, served after
\* another instance was replaced by an Initialize on its id
C34_Witness ==
    \E t \in Threads :
        /\ Done(t, DataKinds)
        /\ Len(th[t].calls) = 1
        /\ Range(th[t].calls) = Registered(slots)
        /\ \E r \in Refs : objs[r] = Dead

\* C35: a fan-out that has returned called the data hook once on every
\* registered entry that listens to the kind, be the entry Initialized and never
\* started, Paused or Running.
C35_FanOutIgnoresState ==
    \A t \in Threads :
        Done(t, DataKinds) =>
            \A r \in Registered(slots), st \in {INITIALIZED, PAUSED, RUNNING} :
                (objs[r].state = st /\ th[t].op \in objs[r].listens) =>
                    Count(th[t].calls, r) = 1

\* a fan-out that called a Paused entry and an entry never started
C35_Witness ==
    \E t \in Threads :
        /\ Done(t, DataKinds)
        /\ {objs[r].state : r \in Range(th[t].calls)} = {INITIALIZED, PAUSED}

\* C36: the dataPointIds of the records of an SMA's result history never
\* decrease along the history, and no window has two valid records.
C36_HistoryMonotonic ==
    \A i, j \in DOMAIN plugin.results :
        i < j =>
            /\ plugin.results[i].id <= plugin.results[j].id
            /\ (plugin.results[i].valid /\ plugin.results[j].valid)
                  => plugin.results[i].pair # plugin.results[j].pair

\* C37: the colour of an SMA result is the default colour when the value is not
\* valid or the history is empty, and otherwise the up colour when the value is
\* at least the value of the latest record of the history as the call found it,
\* the down colour when it is below.
C37_ColourAgainstLastRecord ==
    [][ plugin'.fed = plugin.fed + 1 =>
          LET out == plugin'.out
              n == Len(plugin.results)
          IN  out.colour =
                IF ~out.valid \/ n = 0 THEN "default"
                ELSE IF out.value >= plugin.results[n].value THEN "up" ELSE "down"
      ]_vars

\* a valid result that equals the value of the record before it and has the up colour
C37_Witness ==
    LET n == Len(plugin.results)
    IN  /\ plugin.out.valid
        /\ plugin.out.colour = "up"
        /\ n >= 2
        /\ plugin.results[n] = plugin.out
        /\ plugin.results[n - 1].value = plugin.out.value

\* C38: a ListAvailable or a ListRunning leaves the registry as it found it:
\* the same ids in the same order, each holding the same instance, and every
\* held instance with the state, the configuration and the attributes it had.
C38_ListingsReadOnly ==
    [][ \A t \in Threads :
          (th'[t].pc = "done" /\ th'[t].op \in {"ListAvailable", "ListRunning"}) =>
              /\ slots' = slots
              /\ \A r \in Registered(slots) : objs'[r] = objs[r]
      ]_vars

\* a ListAvailable that loaded both plugins while a started entry made from
\* SimpleTestAlgorithm's singleton was registered: the module's singleton is
\* another object now
C38_Witness ==
    \E t \in Threads :
        /\ Done(t, {"ListAvailable"})
        /\ Len(th[t].resp.items) = 2
        /\ \E r \in Registered(slots) :
              /\ objs[r].src = "SimpleTestAlgorithm"
              /\ objs[r].state = RUNNING
              /\ objs[r].cfg # ""
              /\ modules["SimpleTestAlgorithm"] # r

\* C39: a Start on an entry whose instance is the adapter over a module's
\* functions returns success=true and leaves the entry Running (the module's
\* start function, as the user wrote it, returns success).
C39_AdapterStarts ==
    \A t \in Threads :
        (/\ Done(t, {"Start"})
         /\ Contains(slots, th[t].key)
         /\ objs[Lookup(slots, th[t].key)].src \in AdapterScripts) =>
            /\ th[t].resp.success
            /\ objs[Lookup(slots, th[t].key)].state = RUNNING

\* C40: a ProcessData that has returned gave one response for every registered
\* indicator; it called the process hook of an entry only if the entry was
\* registered for the request's symbol; and for a hook that raised the response
\* holds the entry's id and no data, the other entries having theirs.
C40_ProcessDataPerIndicator ==
    (ith.pc = "done" /\ ith.op = "ProcessData") =>
        LET items == ith.resp.items
        IN  /\ Len(items) = Len(inds)
            /\ \A i \in DOMAIN inds :
                  /\ inds[i].ref \in Range(ith.calls)
                        => iobjs[inds[i].ref].symbol = ith.arg
                  /\ inds[i].ref \in ith.raised
                        => items[i] = [id |-> inds[i].key, data |-> FALSE]
====
